---------------------------- MODULE Spec2Model ----------------------------
(***************************************************************************)
(* SimpleVector<Type> (src/simple-vector/simple_vector.h) as a state       *)
(* machine over a small heap of ArrayPtr buffers.                          *)
(*                                                                         *)
(* A vector instance is the triple (data_ptr_, size_, capacity_).  The     *)
(* heap maps a buffer identity to the slots of that allocation.  Slot i of *)
(* the C++ buffer (0-based) is position i + 1 of the TLA+ sequence.        *)
(***************************************************************************)
EXTENDS Integers, Sequences, FiniteSets, TLC

\* ----------------------------------------------------------------- bounds
\* Slots the memory of a program with one instance has: the largest capacity.
MaxCap == 4
\* Element values are 0..MaxVal.
MaxVal == 1
\* Slots the memory of a program with two instances has.
MaxSlots == 2
\* The largest capacity of the vectors that are compared.
MaxLen == 2

\* ------------------------------------------------------------- the domain
Vecs == {"a", "b"}
Values == 0 .. MaxVal
\* Type(): the value-initialised element (0 for an arithmetic Type).
DefaultValue == 0
\* The null data pointer of an ArrayPtr that holds no allocation.
Null == 0
\* Two instances and the one temporary buffer an operation holds.
BufIds == 1 .. (Cardinality(Vecs) + 1)

VARIABLES
    vec,    \* vec[v]: [alive, buf, size, capacity] of instance v
    heap,   \* heap[id]: the slots of allocation id, <<>> when id is not allocated
    last,   \* the call that produced this state, its arguments and its result
    pushed, \* pushed[v]: what was pushed since v was default-constructed (ok), or
            \* since it was constructed from Reserve(req) with buffer buf (req >= 0)
    room    \* the slots the program's memory has; calls that need more are not taken

vars == <<vec, heap, last, pushed, room>>

\* ------------------------------------------------------------- ArrayPtr
\* An ArrayPtr of n slots holds n uninitialised slots: any values at all.
Uninit(n) == [1 .. n -> Values]

\* The new buffers of n slots a caller may get that writes the first `written'
\* slots before anything reads them: what those slots held makes no difference.
Fresh(n, written) ==
    {[i \in 1 .. n |-> IF i <= written THEN DefaultValue ELSE tail[i - written]] :
        tail \in Uninit(n - written)}

\* The identity a new allocation gets.  Identities are only ever compared for
\* equality, so the lowest free one stands for any free one.
NewId(h) == CHOOSE i \in BufIds : h[i] = <<>> /\ \A j \in BufIds : h[j] = <<>> => i <= j

\* ~ArrayPtr: delete[] of the held allocation, nothing for the null pointer.
Release(h, id) == IF id = Null THEN h ELSE [h EXCEPT ![id] = <<>>]

\* ArrayPtr(n) followed by filling it: a null pointer when n = 0.
AllocId(h, n) == IF n = 0 THEN Null ELSE NewId(h)
Allocate(h, id, slots) == IF id = Null THEN h ELSE [h EXCEPT ![id] = slots]

\* The slots behind a data pointer.
Slots(h, id) == IF id = Null THEN <<>> ELSE h[id]

TotalSlots(h) == LET RECURSIVE Sum(_)
                     Sum(i) == IF i = 0 THEN 0 ELSE Len(h[i]) + Sum(i - 1)
                 IN Sum(Cardinality(BufIds))

\* Whether the memory holds instance v with a buffer of n slots in place of its own.
Room(v, n) == TotalSlots(heap) - vec[v].capacity + n <= room

\* The value a moved-from element is left with: valid but unspecified.
MovedFrom(x) == Values

\* --------------------------------------------------- <algorithm> helpers
\* std::copy(first, last, dst + at): src written over dst from 0-based offset at.
StdCopy(dst, at, src) ==
    [i \in 1 .. Len(dst) |-> IF at < i /\ i <= at + Len(src) THEN src[i - at] ELSE dst[i]]

\* dst[at] = x
Store(dst, at, x) == [dst EXCEPT ![at + 1] = x]

\* std::fill / std::generate over the 0-based range [from, to) with one value.
Fill(dst, from, to, x) ==
    [i \in 1 .. Len(dst) |-> IF from < i /\ i <= to THEN x ELSE dst[i]]

\* ----------------------------------------------------------- observers
\* GetSize, GetCapacity
GetSize(v) == vec[v].size
GetCapacity(v) == vec[v].capacity

\* [begin(), end()): the live elements, in order.
ElemsOf(vc, h, v) == SubSeq(Slots(h, vc[v].buf), 1, vc[v].size)
Elems(v) == ElemsOf(vec, heap, v)

\* The state of a default-constructed instance, and of one not constructed.
EmptyVec == [alive |-> TRUE, buf |-> Null, size |-> 0, capacity |-> 0]
NoVec == [alive |-> FALSE, buf |-> Null, size |-> 0, capacity |-> 0]

\* The record of a call: op on v (with w as its argument), with size or index n
\* and value x.  size0 is v's size before the call; ret is the index of the
\* returned iterator, into the buffer retbuf, or the returned element or bool;
\* threw, whether the call ended with
\* an exception; grew, whether the call left v with a newly allocated buffer;
\* before, the live elements before an Insert, which an Erase at the same
\* position right after it (undo) carries on, with whether that Insert grew
\* the buffer (regrown).
Call(op, v, w, n, x) ==
    [op |-> op, v |-> v, w |-> w, n |-> n, x |-> x, size0 |-> vec[v].size,
     ret |-> 0, retbuf |-> Null, threw |-> FALSE, grew |-> FALSE, before |-> <<>>,
     undo |-> FALSE, regrown |-> FALSE]

\* Whether instance v holds, in the next state, a buffer allocated by this step.
Grew(v) == vec'[v].buf # Null /\ heap[vec'[v].buf] = <<>>

\* The call is recorded; the memory the program has stays what it is.
Did(call) ==
    /\ last' = [call EXCEPT !.grew = Grew(call.v)]
    /\ room' = room

\* The record of a call that ended with std::bad_alloc: the call and its
\* instances.
Failed(op, v, w) == [Call(op, v, w, 0, 0) EXCEPT !.threw = TRUE]

NoPush == [ok |-> FALSE, seq |-> <<>>, req |-> -1, buf |-> Null]

\* What the pushes since default construction were, after a call on v.
Forget(v) == [pushed EXCEPT ![v] = NoPush]

\* --------------------------------------------------------- growth policy
\* Growth by one slot instead of doubling.
NewCapacityPlusOne(capacity) == capacity + 1

\* PushBack, Insert: capacity_ == 0 ? 1 : capacity_ * 2
NewCapacity(capacity) == IF capacity = 0 THEN 1 ELSE capacity * 2

\* Growth to exactly the size asked for.
GrownCapacityExact(capacity, n) == n

\* Resize, copy constructor: capacity_ * 2 >= n ? capacity_ * 2 : n
GrownCapacity(capacity, n) == IF capacity * 2 >= n THEN capacity * 2 ELSE n

\* ------------------------------------------------------------ construction
\* SimpleVector() noexcept = default
CtorDefault(v) ==
    /\ ~vec[v].alive
    /\ vec' = [vec EXCEPT ![v] = EmptyVec]
    /\ heap' = heap
    /\ pushed' = [pushed EXCEPT ![v] = [NoPush EXCEPT !.ok = TRUE]]
    /\ Did(Call("CtorDefault", v, v, 0, 0))

\* A constructor's member initialisers data_ptr_(n), size_(n), capacity_(n), and
\* the slots its body leaves.
Constructed(v, size, capacity, slots) ==
    LET id == AllocId(heap, capacity) IN
    /\ vec' = [vec EXCEPT ![v] = [alive |-> TRUE, buf |-> id, size |-> size,
                                  capacity |-> capacity]]
    /\ heap' = Allocate(heap, id, slots)

\* explicit SimpleVector(size_t size)
CtorSize(v, n) ==
    /\ ~vec[v].alive
    /\ Room(v, n)
    /\ \E fresh \in Fresh(n, n) : Constructed(v, n, n, Fill(fresh, 0, n, DefaultValue))
    /\ pushed' = Forget(v)
    /\ Did(Call("CtorSize", v, v, n, 0))

\* SimpleVector(size_t size, const Type& value)
CtorSizeValue(v, n, value) ==
    /\ ~vec[v].alive
    /\ Room(v, n)
    /\ \E fresh \in Fresh(n, n) : Constructed(v, n, n, Fill(fresh, 0, n, value))
    /\ pushed' = Forget(v)
    /\ Did(Call("CtorSizeValue", v, v, n, value))

\* The slots std::generate leaves when each one is std::move(value) of the same
\* object: the first takes value, each later one a moved-from value.
MovedFill(n, value) ==
    {s \in Uninit(n) : n > 0 => s[1] = value /\ \A i \in 2 .. n : s[i] \in MovedFrom(value)}

\* SimpleVector(size_t size, Type&& value)
CtorSizeMoved(v, n, value) ==
    /\ ~vec[v].alive
    /\ Room(v, n)
    /\ \E slots \in MovedFill(n, value) : Constructed(v, n, n, slots)
    /\ pushed' = Forget(v)
    /\ Did(Call("CtorSizeMoved", v, v, n, value))

\* SimpleVector(std::initializer_list<Type> init)
CtorInitList(v, init) ==
    /\ ~vec[v].alive
    /\ Room(v, Len(init))
    /\ \E fresh \in Fresh(Len(init), Len(init)) :
          Constructed(v, Len(init), Len(init), StdCopy(fresh, 0, init))
    /\ pushed' = Forget(v)
    /\ Did(Call("CtorInitList", v, v, Len(init), 0))

\* What the pushes since construction from Reserve(n) were, at construction.
Reserved(v, n) ==
    [pushed EXCEPT ![v] = [NoPush EXCEPT !.req = n, !.buf = AllocId(heap, n)]]

\* A constructor from Reserve(n) with the member initialisers of the one from a
\* size: size_(n).
CtorReserveSized(v, n) ==
    /\ ~vec[v].alive
    /\ Room(v, n)
    /\ \E fresh \in Fresh(n, 0) : Constructed(v, n, n, fresh)
    /\ pushed' = Reserved(v, n)
    /\ Did(Call("CtorReserve", v, v, n, 0))

\* SimpleVector(const ReserveProxyObj& other): Reserve(n) as the argument
CtorReserve(v, n) ==
    /\ ~vec[v].alive
    /\ Room(v, n)
    /\ \E fresh \in Fresh(n, 0) : Constructed(v, 0, n, fresh)
    /\ pushed' = Reserved(v, n)
    /\ Did(Call("CtorReserve", v, v, n, 0))

\* A copy constructor that copies the members, data pointer included.
CopyOfShallow(h, other, fresh) == [vec |-> other, heap |-> h]

\* The copy constructor's body on a target whose members are value-initialised:
\* the target's members and the heap it leaves, given the new buffer's first slots.
CopyOf(h, other, fresh) ==
    LET this == EmptyVec
        src == SubSeq(Slots(h, other.buf), 1, other.size)
    IN  IF this.capacity >= other.size
          THEN [vec |-> [this EXCEPT !.size = other.size], heap |-> h]
          ELSE LET new_capacity == GrownCapacity(this.capacity, other.size)
                   id == AllocId(h, new_capacity)
               IN  [vec |-> [this EXCEPT !.buf = id, !.capacity = new_capacity,
                                         !.size = other.size],
                    heap |-> Allocate(h, id, StdCopy(fresh, 0, src))]

\* The uninitialised buffers the copy constructor may get.
CopyFresh(other) == Fresh(GrownCapacity(0, other.size), other.size)

\* SimpleVector(const SimpleVector<Type>& other)
CtorCopy(v, w) ==
    /\ ~vec[v].alive /\ vec[w].alive
    /\ Room(v, GrownCapacity(0, vec[w].size))
    /\ \E fresh \in CopyFresh(vec[w]) :
          LET r == CopyOf(heap, vec[w], fresh) IN
          /\ vec' = [vec EXCEPT ![v] = r.vec]
          /\ heap' = r.heap
    /\ pushed' = Forget(v)
    /\ Did(Call("CtorCopy", v, w, 0, 0))

\* swap without its last line, std::swap(capacity_, other.capacity_).
SwapMembersKeepCapacity(this, other) ==
    [this |-> [other EXCEPT !.capacity = this.capacity],
     other |-> [this EXCEPT !.capacity = other.capacity]]

\* swap(SimpleVector& other): the members of this and of other afterwards.
SwapMembers(this, other) == [this |-> other, other |-> this]

\* A move constructor that takes the source's members and leaves the source
\* as it was.
CtorMoveKeepSource(v, w) ==
    /\ ~vec[v].alive /\ vec[w].alive
    /\ vec' = [vec EXCEPT ![v] = vec[w]]
    /\ heap' = heap
    /\ pushed' = [pushed EXCEPT ![v] = NoPush, ![w] = NoPush]
    /\ Did(Call("CtorMove", v, w, 0, 0))

\* SimpleVector(SimpleVector&& other) noexcept
CtorMove(v, w) ==
    /\ ~vec[v].alive /\ vec[w].alive
    /\ LET r == SwapMembers(EmptyVec, vec[w]) IN
          vec' = [vec EXCEPT ![v] = r.this, ![w] = r.other]
    /\ heap' = heap
    /\ pushed' = [pushed EXCEPT ![v] = NoPush, ![w] = NoPush]
    /\ Did(Call("CtorMove", v, w, 0, 0))

\* The implicit destructor: ~ArrayPtr releases the buffer.
Destroy(v) ==
    /\ vec[v].alive
    /\ vec' = [vec EXCEPT ![v] = NoVec]
    /\ heap' = Release(heap, vec[v].buf)
    /\ pushed' = Forget(v)
    /\ Did(Call("Destroy", v, v, 0, 0))

\* ---------------------------------------------------------------- mutators
\* ArrayPtr<Type> new_ptr(new_capacity); ...fill...; data_ptr_.swap(new_ptr);
\* capacity_ = new_capacity; and new_ptr's destructor releasing the old buffer.
Reallocated(v, new_capacity, slots, new_size) ==
    LET id == AllocId(heap, new_capacity) IN
    /\ vec' = [vec EXCEPT ![v].buf = id, ![v].capacity = new_capacity,
                          ![v].size = new_size]
    /\ heap' = Release(Allocate(heap, id, slots), vec[v].buf)

\* Writing the slots of v's own buffer and setting size_.
InPlace(v, slots, new_size) ==
    /\ vec' = [vec EXCEPT ![v].size = new_size]
    /\ heap' = Allocate(heap, vec[v].buf, slots)

\* void PopBack() noexcept, its assertion being the caller's obligation
PopBack(v) ==
    /\ vec[v].alive
    /\ vec[v].size # 0
    /\ vec' = [vec EXCEPT ![v].size = @ - 1]
    /\ heap' = heap
    /\ pushed' = Forget(v)
    /\ Did(Call("PopBack", v, v, 0, 0))

\* The body shared by the two PushBack overloads (std::move of an element whose
\* buffer is released right after leaves nothing to observe).
PushBackBody(v, value) ==
    LET size == vec[v].size
        capacity == vec[v].capacity
        data == Slots(heap, vec[v].buf)
    IN  IF size # capacity
          THEN InPlace(v, Store(data, size, value), size + 1)
          ELSE LET new_capacity == NewCapacity(capacity) IN
               /\ Room(v, new_capacity)
               /\ \E fresh \in Fresh(new_capacity, size + 1) :
                     Reallocated(v, new_capacity,
                                 Store(StdCopy(fresh, 0, Elems(v)), size, value),
                                 size + 1)

\* What the pushes were, after one more: the pushes beyond the capacity
\* requested at construction are not followed.
Pushed(v, value) ==
    [pushed EXCEPT ![v] = IF @.ok \/ Len(@.seq) < @.req
                            THEN [@ EXCEPT !.seq = Append(@, value)]
                            ELSE NoPush]

\* void PushBack(const Type& value)
PushBack(v, value) ==
    /\ vec[v].alive
    /\ PushBackBody(v, value)
    /\ pushed' = Pushed(v, value)
    /\ Did(Call("PushBack", v, v, 0, value))

\* void PushBack(Type&& value)
PushBackMove(v, value) ==
    /\ vec[v].alive
    /\ PushBackBody(v, value)
    /\ pushed' = Pushed(v, value)
    /\ Did(Call("PushBackMove", v, v, 0, value))

\* An Erase that moves nothing and only drops the last element.
ErasedNothingMoved(data, size, n, m) == data

\* The slots after Erase at 0-based n: the elements after n moved one slot left,
\* the last of them left moved-from (m) when anything was moved.
Erased(data, size, n, m) ==
    LET shifted == StdCopy(data, n, SubSeq(data, n + 2, size))
    IN  IF n + 1 < size THEN Store(shifted, size - 1, m) ELSE shifted

\* An Erase that returns the position after pos.
EraseReturnsNext(v, n) == [buf |-> vec[v].buf, idx |-> n + 1]

\* The iterator Erase returns: &data_ptr_[n].
EraseReturns(v, n) == [buf |-> vec[v].buf, idx |-> n]

\* Iterator Erase(ConstIterator pos), pos = begin() + n.  &data_ptr_[n + 1] is
\* one past the buffer when the last element of a full vector is erased: only
\* the address is formed, and the range it starts is empty.
Erase(v, n) ==
    /\ vec[v].alive
    /\ 0 <= n /\ n < vec[v].size
    /\ \E m \in MovedFrom(Slots(heap, vec[v].buf)[vec[v].size]) :
          InPlace(v, Erased(Slots(heap, vec[v].buf), vec[v].size, n, m),
                  vec[v].size - 1)
    /\ pushed' = Forget(v)
    /\ LET undo == /\ last.op \in {"Insert", "InsertMove"} /\ ~last.threw
                    /\ last.v = v /\ last.n = n
       IN
          Did([Call("Erase", v, v, n, 0) EXCEPT
                  !.ret = EraseReturns(v, n).idx, !.retbuf = EraseReturns(v, n).buf,
                  !.undo = undo,
                  !.before = IF undo THEN last.before ELSE <<>>,
                  !.regrown = undo /\ last.grew])

\* The slots after an Insert that fits: copy_backward of [n, size) to end at
\* size + 1, then data_ptr_[n] = value.
InsertedInPlace(data, size, n, value) ==
    Store(StdCopy(data, n + 1, SubSeq(data, n + 1, size)), n, value)

\* The new buffer of an Insert that grows: copy of [0, n), the value, copy of
\* [n, size) from pos_in_new + 1.
InsertedGrown(fresh, data, size, n, value) ==
    StdCopy(Store(StdCopy(fresh, 0, SubSeq(data, 1, n)), n, value),
            n + 1, SubSeq(data, n + 1, size))

\* The body shared by the two Insert overloads.
InsertBody(v, n, value) ==
    LET size == vec[v].size
        capacity == vec[v].capacity
        data == Slots(heap, vec[v].buf)
    IN  IF size # capacity
          THEN InPlace(v, InsertedInPlace(data, size, n, value), size + 1)
          ELSE LET new_capacity == NewCapacity(capacity) IN
               /\ Room(v, new_capacity)
               /\ \E fresh \in Fresh(new_capacity, size + 1) :
                     Reallocated(v, new_capacity,
                                 InsertedGrown(fresh, data, size, n, value), size + 1)

\* An Insert that returns &data_ptr_[n] as it is before the buffers are swapped.
InsertReturnsOld(v, n) == [buf |-> vec[v].buf, idx |-> n]

\* The iterator Insert returns: &data_ptr_[n] when the value fits, pos_in_new,
\* which is new_ptr.Get() + n, when the buffer grows.
InsertReturns(v, n) ==
    IF vec[v].size # vec[v].capacity
      THEN [buf |-> vec[v].buf, idx |-> n]
      ELSE [buf |-> AllocId(heap, NewCapacity(vec[v].capacity)), idx |-> n]

\* Iterator Insert(ConstIterator pos, const Type& value), pos = begin() + n.
\* Its calls of std::copy_backward and std::copy pass a ConstIterator and an
\* Iterator as the two ends of one range, which no instantiation of the
\* overload accepts: it is modelled by what its statements say.
Insert(v, n, value) ==
    /\ vec[v].alive
    /\ 0 <= n /\ n <= vec[v].size
    /\ InsertBody(v, n, value)
    /\ pushed' = Forget(v)
    /\ Did([Call("Insert", v, v, n, value) EXCEPT
               !.ret = InsertReturns(v, n).idx, !.retbuf = InsertReturns(v, n).buf,
               !.before = Elems(v)])

\* Iterator Insert(ConstIterator pos, Type&& value), pos = begin() + n.
\* &data_ptr_[n] on a null or a full buffer only forms an address.
InsertMove(v, n, value) ==
    /\ vec[v].alive
    /\ 0 <= n /\ n <= vec[v].size
    /\ InsertBody(v, n, value)
    /\ pushed' = Forget(v)
    /\ Did([Call("InsertMove", v, v, n, value) EXCEPT
               !.ret = InsertReturns(v, n).idx, !.retbuf = InsertReturns(v, n).buf,
               !.before = Elems(v)])

\* void swap(SimpleVector& other) noexcept
Swap(v, w) ==
    /\ vec[v].alive /\ vec[w].alive
    /\ LET r == SwapMembers(vec[v], vec[w]) IN
          vec' = [vec EXCEPT ![v] = r.this, ![w] = r.other]
    /\ heap' = heap
    /\ pushed' = [pushed EXCEPT ![v] = NoPush, ![w] = NoPush]
    /\ Did(Call("swap", v, w, 0, 0))

\* A Reserve that reallocates also when new_capacity == capacity_.
ReserveAlsoWhenEqual(v, new_capacity) ==
    /\ vec[v].alive
    /\ IF new_capacity >= vec[v].capacity
         THEN /\ Room(v, new_capacity)
              /\ \E fresh \in Fresh(new_capacity, vec[v].size) :
                    Reallocated(v, new_capacity, StdCopy(fresh, 0, Elems(v)),
                                vec[v].size)
         ELSE UNCHANGED <<vec, heap>>
    /\ pushed' = Forget(v)
    /\ Did(Call("Reserve", v, v, new_capacity, 0))

\* void Reserve(size_t new_capacity)
Reserve(v, new_capacity) ==
    /\ vec[v].alive
    /\ IF new_capacity > vec[v].capacity
         THEN /\ Room(v, new_capacity)
              /\ \E fresh \in Fresh(new_capacity, vec[v].size) :
                    Reallocated(v, new_capacity, StdCopy(fresh, 0, Elems(v)),
                                vec[v].size)
         ELSE UNCHANGED <<vec, heap>>
    /\ pushed' = Forget(v)
    /\ Did(Call("Reserve", v, v, new_capacity, 0))

\* An At that checks the index against capacity_ instead of size_.
AtWithinCapacity(v, index) ==
    /\ vec[v].alive
    /\ UNCHANGED <<vec, heap, pushed>>
    /\ IF index >= vec[v].capacity
         THEN Did([Call("At", v, v, index, 0) EXCEPT !.threw = TRUE])
         ELSE Did([Call("At", v, v, index, 0) EXCEPT
                      !.ret = Slots(heap, vec[v].buf)[index + 1]])

\* Type& At(size_t index): throws std::out_of_range when index >= size_
At(v, index) ==
    /\ vec[v].alive
    /\ UNCHANGED <<vec, heap, pushed>>
    /\ IF index >= vec[v].size
         THEN Did([Call("At", v, v, index, 0) EXCEPT !.threw = TRUE])
         ELSE Did([Call("At", v, v, index, 0) EXCEPT
                      !.ret = Slots(heap, vec[v].buf)[index + 1]])

\* A Clear that gives the buffer up, as a swap with an empty vector would.
ClearReleasing(v) ==
    /\ vec[v].alive
    /\ vec' = [vec EXCEPT ![v] = EmptyVec]
    /\ heap' = Release(heap, vec[v].buf)
    /\ pushed' = Forget(v)
    /\ Did(Call("Clear", v, v, 0, 0))

\* void Clear() noexcept
Clear(v) ==
    /\ vec[v].alive
    /\ vec' = [vec EXCEPT ![v].size = 0]
    /\ heap' = heap
    /\ pushed' = Forget(v)
    /\ Did(Call("Clear", v, v, 0, 0))

\* A Resize whose first branch also gives up the capacity beyond new_size.
ResizeBodyShrinkCapacity(v, new_size) ==
    LET size == vec[v].size
        capacity == vec[v].capacity
        data == Slots(heap, vec[v].buf)
    IN  IF new_size <= size
          THEN /\ vec' = [vec EXCEPT ![v].size = new_size, ![v].capacity = new_size]
               /\ heap' = heap
          ELSE IF new_size > size /\ new_size <= capacity
          THEN InPlace(v, Fill(data, size, new_size, DefaultValue), new_size)
          ELSE LET new_capacity == GrownCapacity(capacity, new_size) IN
               /\ Room(v, new_capacity)
               /\ \E fresh \in Fresh(new_capacity, new_size) :
                     Reallocated(v, new_capacity,
                                 Fill(StdCopy(fresh, 0, Elems(v)), size, new_size,
                                      DefaultValue),
                                 new_size)

\* A Resize whose second branch only sets size_, without the std::generate.
ResizeBodyNoGenerate(v, new_size) ==
    LET size == vec[v].size
        capacity == vec[v].capacity
    IN  IF new_size <= capacity
          THEN /\ vec' = [vec EXCEPT ![v].size = new_size]
               /\ heap' = heap
          ELSE LET new_capacity == GrownCapacity(capacity, new_size) IN
               /\ Room(v, new_capacity)
               /\ \E fresh \in Fresh(new_capacity, new_size) :
                     Reallocated(v, new_capacity,
                                 Fill(StdCopy(fresh, 0, Elems(v)), size, new_size,
                                      DefaultValue),
                                 new_size)

\* The three branches of Resize.
ResizeBody(v, new_size) ==
    LET size == vec[v].size
        capacity == vec[v].capacity
        data == Slots(heap, vec[v].buf)
    IN  IF new_size <= size
          THEN /\ vec' = [vec EXCEPT ![v].size = new_size]
               /\ heap' = heap
          ELSE IF new_size > size /\ new_size <= capacity
          THEN InPlace(v, Fill(data, size, new_size, DefaultValue), new_size)
          ELSE LET new_capacity == GrownCapacity(capacity, new_size) IN
               /\ Room(v, new_capacity)
               /\ \E fresh \in Fresh(new_capacity, new_size) :
                     Reallocated(v, new_capacity,
                                 Fill(StdCopy(fresh, 0, Elems(v)), size, new_size,
                                      DefaultValue),
                                 new_size)

\* void Resize(size_t new_size)
Resize(v, new_size) ==
    /\ vec[v].alive
    /\ ResizeBody(v, new_size)
    /\ pushed' = Forget(v)
    /\ Did(Call("Resize", v, v, new_size, 0))

\* A copy assignment that takes over rhs's members, data pointer included.
CopyAssignShallow(v, w) ==
    /\ vec[v].alive /\ vec[w].alive
    /\ IF v # w
         THEN /\ vec' = [vec EXCEPT ![v] = vec[w]]
              /\ heap' = Release(heap, vec[v].buf)
         ELSE UNCHANGED <<vec, heap>>
    /\ pushed' = Forget(v)
    /\ Did(Call("CopyAssign", v, w, 0, 0))

\* A copy assignment without the test this != &rhs.
CopyAssignNoSelfTest(v, w) ==
    /\ vec[v].alive /\ vec[w].alive
    /\ Room(v, GrownCapacity(0, vec[w].size))
    /\ \E fresh \in CopyFresh(vec[w]) :
          LET rhs_copy == CopyOf(heap, vec[w], fresh)
              r == SwapMembers(vec[v], rhs_copy.vec)
          IN  /\ vec' = [vec EXCEPT ![v] = r.this]
              /\ heap' = Release(rhs_copy.heap, r.other.buf)
    /\ pushed' = Forget(v)
    /\ Did(Call("CopyAssign", v, w, 0, 0))

\* SimpleVector& operator=(const SimpleVector<Type>& rhs): a copy of rhs, swapped
\* with this, and the copy's destructor releasing what this held.
CopyAssign(v, w) ==
    /\ vec[v].alive /\ vec[w].alive
    /\ IF v # w
         THEN /\ Room(v, GrownCapacity(0, vec[w].size))
              /\ \E fresh \in CopyFresh(vec[w]) :
                 LET rhs_copy == CopyOf(heap, vec[w], fresh)
                     r == SwapMembers(vec[v], rhs_copy.vec)
                 IN  /\ vec' = [vec EXCEPT ![v] = r.this]
                     /\ heap' = Release(rhs_copy.heap, r.other.buf)
         ELSE UNCHANGED <<vec, heap>>
    /\ pushed' = Forget(v)
    /\ Did(Call("CopyAssign", v, w, 0, 0))

\* A move assignment without the self-assignment test, releasing what this
\* held and emptying the source.
MoveAssignReleasing(v, w) ==
    /\ vec[v].alive /\ vec[w].alive
    /\ vec' = [vec EXCEPT ![w] = EmptyVec, ![v] = IF v = w THEN EmptyVec ELSE vec[w]]
    /\ heap' = IF v = w THEN heap ELSE Release(heap, vec[v].buf)
    /\ pushed' = [pushed EXCEPT ![v] = NoPush, ![w] = NoPush]
    /\ Did(Call("MoveAssign", v, w, 0, 0))

\* SimpleVector& operator=(SimpleVector<Type>&& rhs) noexcept
MoveAssign(v, w) ==
    /\ vec[v].alive /\ vec[w].alive
    /\ IF v # w
         THEN LET r == SwapMembers(vec[v], vec[w]) IN
                 vec' = [vec EXCEPT ![v] = r.this, ![w] = r.other]
         ELSE vec' = vec
    /\ heap' = heap
    /\ pushed' = [pushed EXCEPT ![v] = NoPush, ![w] = NoPush]
    /\ Did(Call("MoveAssign", v, w, 0, 0))

\* ------------------------------------------------------ allocation failure
\* An allocating call that assigns capacity_ before it allocates.
OutOfMemoryCapacitySet(v, new_capacity) ==
    /\ vec' = [vec EXCEPT ![v].capacity = new_capacity]
    /\ heap' = heap

\* ArrayPtr<Type> new_ptr(new_capacity) throwing std::bad_alloc: it is the first
\* statement of its branch that has an effect, and the exception leaves the
\* function through no handler.
OutOfMemory(v, new_capacity) ==
    /\ vec' = vec
    /\ heap' = heap

\* PushBack(const Type&), the allocation of its else branch failing, whatever
\* the value: it is not read before the allocation.
PushBackThrows(v) ==
    /\ vec[v].alive
    /\ ~(vec[v].size # vec[v].capacity)
    /\ OutOfMemory(v, NewCapacity(vec[v].capacity))
    /\ pushed' = Forget(v)
    /\ Did(Failed("PushBack", v, v))

\* PushBack(Type&&), the allocation of its else branch failing
PushBackMoveThrows(v) ==
    /\ vec[v].alive
    /\ ~(vec[v].size # vec[v].capacity)
    /\ OutOfMemory(v, NewCapacity(vec[v].capacity))
    /\ pushed' = Forget(v)
    /\ Did(Failed("PushBackMove", v, v))

\* Insert(ConstIterator, const Type&), the allocation of its else branch
\* failing, whatever the value and the position within [begin(), end()]:
\* neither is read before the allocation.
InsertThrows(v) ==
    /\ vec[v].alive
    /\ ~(vec[v].size # vec[v].capacity)
    /\ OutOfMemory(v, NewCapacity(vec[v].capacity))
    /\ pushed' = Forget(v)
    /\ Did(Failed("Insert", v, v))

\* Insert(ConstIterator, Type&&), the allocation of its else branch failing
InsertMoveThrows(v) ==
    /\ vec[v].alive
    /\ ~(vec[v].size # vec[v].capacity)
    /\ OutOfMemory(v, NewCapacity(vec[v].capacity))
    /\ pushed' = Forget(v)
    /\ Did(Failed("InsertMove", v, v))

\* Reserve, its allocation failing
ReserveThrows(v, new_capacity) ==
    /\ vec[v].alive
    /\ new_capacity > vec[v].capacity
    /\ OutOfMemory(v, new_capacity)
    /\ pushed' = Forget(v)
    /\ Did(Failed("Reserve", v, v))

\* Resize, the allocation of its third branch failing
ResizeThrows(v, new_size) ==
    /\ vec[v].alive
    /\ ~(new_size <= vec[v].size)
    /\ ~(new_size > vec[v].size /\ new_size <= vec[v].capacity)
    /\ new_size > vec[v].size /\ new_size > vec[v].capacity
    /\ OutOfMemory(v, GrownCapacity(vec[v].capacity, new_size))
    /\ pushed' = Forget(v)
    /\ Did(Failed("Resize", v, v))

\* The copy constructor, the allocation of its else branch failing: the target
\* is not constructed.
CtorCopyThrows(v, w) ==
    /\ ~vec[v].alive /\ vec[w].alive
    /\ ~(EmptyVec.capacity >= vec[w].size)
    /\ OutOfMemory(v, GrownCapacity(EmptyVec.capacity, vec[w].size))
    /\ pushed' = Forget(v)
    /\ Did(Failed("CtorCopy", v, w))

\* Copy assignment, the copy constructor of rhs_copy throwing: swap is not
\* reached.
CopyAssignThrows(v, w) ==
    /\ vec[v].alive /\ vec[w].alive
    /\ v # w
    /\ ~(EmptyVec.capacity >= vec[w].size)
    /\ OutOfMemory(v, GrownCapacity(EmptyVec.capacity, vec[w].size))
    /\ pushed' = Forget(v)
    /\ Did(Failed("CopyAssign", v, w))

\* -------------------------------------------------------------- comparison
\* std::equal(first1, last1, first2): s1 and s2 are the slots behind first1 and
\* first2, n1 the length of [first1, last1).
StdEqual(s1, n1, s2) ==
    LET RECURSIVE Loop(_)
        Loop(i) == IF i = n1 THEN TRUE
                   ELSE IF ~(s1[i + 1] = s2[i + 1]) THEN FALSE
                   ELSE Loop(i + 1)
    IN  Loop(0)

\* std::lexicographical_compare(first1, last1, first2, last2)
StdLexicographicalCompare(s1, n1, s2, n2) ==
    LET RECURSIVE Loop(_)
        Loop(i) == IF i = n1 \/ i = n2 THEN i = n1 /\ i # n2
                   ELSE IF s1[i + 1] < s2[i + 1] THEN TRUE
                   ELSE IF s2[i + 1] < s1[i + 1] THEN FALSE
                   ELSE Loop(i + 1)
    IN  Loop(0)

\* An operator== that compares the capacities instead of the sizes.
OperatorEqualByCapacity(lhs, rhs) ==
    /\ GetCapacity(lhs) = GetCapacity(rhs)
    /\ StdEqual(Slots(heap, vec[lhs].buf), GetSize(lhs), Slots(heap, vec[rhs].buf))

\* operator==
OperatorEqual(lhs, rhs) ==
    /\ GetSize(lhs) = GetSize(rhs)
    /\ StdEqual(Slots(heap, vec[lhs].buf), GetSize(lhs), Slots(heap, vec[rhs].buf))

\* operator!=
OperatorNotEqual(lhs, rhs) == ~OperatorEqual(lhs, rhs)

\* operator<
OperatorLess(lhs, rhs) ==
    StdLexicographicalCompare(Slots(heap, vec[lhs].buf), GetSize(lhs),
                              Slots(heap, vec[rhs].buf), GetSize(rhs))

\* operator<=
OperatorLessEqual(lhs, rhs) == ~OperatorLess(rhs, lhs)

\* operator>
OperatorGreater(lhs, rhs) == OperatorLess(rhs, lhs)

\* operator>=
OperatorGreaterEqual(lhs, rhs) == ~OperatorLess(lhs, rhs)

\* A bool as the call record holds it.
Truth(b) == IF b THEN 1 ELSE 0

\* A comparison of lhs with rhs that returned result: it changes nothing.
Compared(op, lhs, rhs, result) ==
    /\ vec[lhs].alive /\ vec[rhs].alive
    /\ UNCHANGED <<vec, heap, pushed>>
    /\ Did([Call(op, lhs, rhs, 0, 0) EXCEPT !.ret = Truth(result)])

Equal(lhs, rhs) == Compared("==", lhs, rhs, OperatorEqual(lhs, rhs))
NotEqual(lhs, rhs) == Compared("!=", lhs, rhs, OperatorNotEqual(lhs, rhs))
Less(lhs, rhs) == Compared("<", lhs, rhs, OperatorLess(lhs, rhs))
LessEqual(lhs, rhs) == Compared("<=", lhs, rhs, OperatorLessEqual(lhs, rhs))
Greater(lhs, rhs) == Compared(">", lhs, rhs, OperatorGreater(lhs, rhs))
GreaterEqual(lhs, rhs) == Compared(">=", lhs, rhs, OperatorGreaterEqual(lhs, rhs))

\* ------------------------------------------------------- the state machine
\* The sizes, lists and indices that calls are made with.
Sizes == 0 .. room
Lists == UNION {[1 .. k -> Values] : k \in Sizes}

Start(slots) ==
    /\ vec = [v \in Vecs |-> NoVec]
    /\ heap = [i \in BufIds |-> <<>>]
    /\ pushed = [v \in Vecs |-> NoPush]
    /\ last = Call("none", "a", "a", 0, 0)
    /\ room = slots

\* A call on one instance.
Solo(v) ==
    \/ CtorDefault(v)
    \/ \E n \in Sizes : CtorSize(v, n)
    \/ \E n \in Sizes, x \in Values : CtorSizeValue(v, n, x)
    \/ \E n \in Sizes, x \in Values : CtorSizeMoved(v, n, x)
    \/ \E init \in Lists : CtorInitList(v, init)
    \/ \E n \in Sizes : CtorReserve(v, n)
    \/ Destroy(v)
    \/ PopBack(v)
    \/ \E x \in Values : PushBack(v, x)
    \/ \E x \in Values : PushBackMove(v, x)
    \/ \E n \in Sizes : Erase(v, n)
    \/ \E n \in Sizes, x \in Values : Insert(v, n, x)
    \/ \E n \in Sizes, x \in Values : InsertMove(v, n, x)
    \/ \E n \in Sizes : Reserve(v, n)
    \/ \E i \in 0 .. room + 1 : At(v, i)
    \/ Clear(v)
    \/ \E n \in Sizes : Resize(v, n)
    \/ PushBackThrows(v)
    \/ PushBackMoveThrows(v)
    \/ InsertThrows(v)
    \/ InsertMoveThrows(v)
    \/ \E n \in Sizes : ReserveThrows(v, n)
    \/ \E n \in Sizes : ResizeThrows(v, n)

\* The construction of one instance from another, and the calls that only act
\* between two instances.
From(v, w) ==
    \/ CtorCopy(v, w)
    \/ CtorMove(v, w)
    \/ CtorCopyThrows(v, w)
    \/ CopyAssignThrows(v, w)

\* A call on one instance with another, or the same one, as its argument.
With(v, w) ==
    \/ Swap(v, w)
    \/ CopyAssign(v, w)
    \/ MoveAssign(v, w)

\* A program with the single instance a.
Init == Start(MaxCap)

Next == Solo("a") \/ With("a", "a")

Spec == Init /\ [][Next]_vars

\* A program with the two instances.
InitPair == Start(MaxSlots)

NextPair ==
    \/ \E v \in Vecs : Solo(v)
    \/ \E v \in Vecs, w \in Vecs : From(v, w)
    \/ \E v \in Vecs, w \in Vecs : With(v, w)

SpecPair == InitPair /\ [][NextPair]_vars

\* The states of one instance with a capacity up to MaxLen: any size within the
\* capacity, any values in the slots, live or stale.
Built(id) ==
    {[vec |-> [alive |-> TRUE, buf |-> IF Len(slots) = 0 THEN Null ELSE id,
               size |-> size, capacity |-> Len(slots)],
      slots |-> slots] :
        slots \in UNION {[1 .. k -> Values] : k \in 0 .. MaxLen}, size \in 0 .. MaxLen}

\* A program that has built the two instances and compares them.
InitCompare ==
    /\ \E a \in Built(1), b \in Built(2) :
          /\ a.vec.size <= a.vec.capacity /\ b.vec.size <= b.vec.capacity
          /\ vec = [v \in Vecs |-> IF v = "a" THEN a.vec ELSE b.vec]
          /\ heap = [i \in BufIds |-> IF i = 1 THEN a.slots
                                      ELSE IF i = 2 THEN b.slots ELSE <<>>]
    /\ pushed = [v \in Vecs |-> NoPush]
    /\ last = Call("none", "a", "a", 0, 0)
    /\ room = 2 * MaxLen

NextCompare ==
    \/ \E w \in Vecs : Equal("a", w)
    \/ \E w \in Vecs : NotEqual("a", w)
    \/ \E w \in Vecs : Less("a", w)
    \/ \E w \in Vecs : LessEqual("a", w)
    \/ \E w \in Vecs : Greater("a", w)
    \/ \E w \in Vecs : GreaterEqual("a", w)

SpecCompare == InitCompare /\ [][NextCompare]_vars

TypeOK ==
    /\ \A v \in Vecs : vec[v].size \in Sizes /\ vec[v].capacity \in Sizes
    /\ \A v \in Vecs : vec[v].buf \in BufIds \cup {Null} /\ vec[v].alive \in BOOLEAN
    /\ \A i \in BufIds : heap[i] \in Lists
    /\ room \in {MaxCap, MaxSlots, 2 * MaxLen}

\* ------------------------------------------------------------------ claims
\* C1: in every reachable state of a program with two instances, whatever calls
\* were made (constructors, PushBack, PopBack, Insert, Erase, Resize, Reserve,
\* Clear, swap, copy and move construction and assignment), every instance has
\* 0 <= size <= capacity.
C1_SizeWithinCapacity ==
    \A v \in Vecs : 0 <= GetSize(v) /\ GetSize(v) <= GetCapacity(v)

\* A move assignment between two instances has left one full and non-empty and
\* the other with spare capacity.
C1_Witness ==
    /\ last.op = "MoveAssign" /\ last.v # last.w
    /\ vec[last.v].size < vec[last.v].capacity
    /\ vec[last.w].size = vec[last.w].capacity /\ vec[last.w].size > 0

\* The smallest power of two that is >= n.
PowerOfTwoAtLeast(n) ==
    LET RECURSIVE Up(_)
        Up(p) == IF p >= n THEN p ELSE Up(2 * p)
    IN  Up(1)

\* C2: after N >= 1 consecutive PushBack calls on a default-constructed vector,
\* the size is N, the capacity is the smallest power of two >= N, and the live
\* elements are the pushed values in push order.
C2_PushGrowth ==
    \A v \in Vecs :
        pushed[v].ok /\ Len(pushed[v].seq) >= 1 =>
            /\ vec[v].size = Len(pushed[v].seq)
            /\ vec[v].capacity = PowerOfTwoAtLeast(Len(pushed[v].seq))
            /\ Elems(v) = pushed[v].seq

\* Three pushes, of values that differ, have taken the capacity through 1 and 2
\* to 4.
C2_Witness ==
    /\ pushed["a"].ok /\ Len(pushed["a"].seq) = 3
    /\ pushed["a"].seq[1] # pushed["a"].seq[2]
    /\ vec["a"].capacity = 4 /\ last.grew

\* The calls that act on one instance alone.
SoloOps ==
    {"PopBack", "PushBack", "PushBackMove", "Erase", "Insert", "InsertMove",
     "Reserve", "Clear", "Resize", "At", "Destroy"}

\* What is seen of instance v: its members and its live elements.
View(vc, h, v) == <<vc[v], ElemsOf(vc, h, v)>>

\* What C3 asks of every step.
C3_Step ==
    /\ last'.op = "CtorCopy" /\ ~last'.threw =>
          LET d == last'.v
              c == last'.w
          IN  /\ vec'[d].size = vec[c].size
              /\ ElemsOf(vec', heap', d) = Elems(c)
              /\ vec'[c] = vec[c]
              /\ Slots(heap', vec'[c].buf) = Slots(heap, vec[c].buf)
              /\ vec'[d].buf = Null \/ vec'[d].buf # vec'[c].buf
    /\ last'.op \in SoloOps =>
          \A c \in Vecs \ {last'.v} : View(vec', heap', c) = View(vec, heap, c)

\* C3: copy construction of d from c gives d the size and the live elements of
\* c, leaves c (members and buffer contents) as it was and gives d no buffer of
\* c's; and any call on one instance alone leaves every other instance's size,
\* capacity, buffer and elements unchanged.
C3_CopyIsIndependent == [][C3_Step]_vars

\* A non-empty instance has been copied: both hold a buffer, and not the same.
C3_Witness ==
    /\ last.op = "CtorCopy" /\ ~last.threw
    /\ vec[last.v].size >= 1 /\ Elems(last.v) = Elems(last.w)
    /\ vec[last.w].buf # Null /\ vec[last.v].buf # Null
    /\ vec[last.v].buf # vec[last.w].buf

\* What C4 asks of every step.
C4_Step ==
    last'.op = "CtorMove" =>
        LET d == last'.v
            c == last'.w
        IN  /\ vec'[d] = vec[c]
            /\ ElemsOf(vec', heap', d) = Elems(c)
            /\ vec'[c] = EmptyVec
            /\ heap' = heap

\* C4: move construction of d from c gives d the size, capacity, buffer and
\* live elements c had, leaves c with size 0, capacity 0 and no buffer, and
\* allocates and releases nothing.
C4_MoveConstruction == [][C4_Step]_vars

\* An instance holding an element and spare capacity has been moved from.
C4_Witness ==
    /\ last.op = "CtorMove"
    /\ vec[last.v].size = 1 /\ vec[last.v].capacity = 2
    /\ vec[last.w] = EmptyVec

\* What C5 as claimed asks of every step.
C5_Claimed_Step ==
    last'.op = "MoveAssign" =>
        LET d == last'.v
            c == last'.w
        IN  IF d # c
              THEN /\ View(vec', heap', d) = View(vec, heap, c)
                   /\ vec'[c].size = 0 /\ vec'[c].capacity = 0
              ELSE vec' = vec /\ heap' = heap

\* C5 as claimed: move assignment d = move(c) between two instances leaves d
\* with what c held and c with size 0 and capacity 0, whatever d held; on the
\* same instance it changes nothing.
C5_SourceEmptied == [][C5_Claimed_Step]_vars

\* What C5 as amended asks of every step.
C5_Step ==
    last'.op = "MoveAssign" =>
        LET d == last'.v
            c == last'.w
        IN  /\ heap' = heap
            /\ IF d # c
                 THEN /\ View(vec', heap', d) = View(vec, heap, c)
                      /\ View(vec', heap', c) = View(vec, heap, d)
                      /\ (vec'[c].size = 0 /\ vec'[c].capacity = 0)
                            <=> (vec[d].size = 0 /\ vec[d].capacity = 0)
                 ELSE vec' = vec

\* C5 as amended: move assignment d = move(c) between two instances leaves d
\* with the size, capacity, buffer and elements c had and c with those d had
\* (so c ends empty with capacity 0 exactly when d was so); on the same
\* instance it changes nothing; it allocates and releases nothing.
C5_MoveAssignExchanges == [][C5_Step]_vars

\* A non-empty instance has been move-assigned to: the source now holds an
\* element.
C5_Witness ==
    /\ last.op = "MoveAssign" /\ last.v # last.w
    /\ last.size0 = 1
    /\ vec[last.w].size = 1 /\ vec[last.v].size = 1

\* C6: Insert of any value at any position p in 0..size followed at once by
\* Erase at p leaves the live elements and the size as they were before the
\* Insert, whether the Insert fitted in the capacity or grew the buffer.
C6_InsertEraseInverse ==
    last.op = "Erase" /\ last.undo =>
        /\ Elems(last.v) = last.before
        /\ vec[last.v].size = Len(last.before)

\* An Insert in the middle of two elements that differ grew the buffer, and the
\* Erase at the same position has followed it.
C6_Witness ==
    /\ last.op = "Erase" /\ last.undo /\ last.regrown
    /\ last.n = 1 /\ Len(last.before) = 2
    /\ last.before[1] # last.before[2]

\* What C7 asks of every step.
C7_Step ==
    last'.op = "Resize" /\ ~last'.threw /\ last'.n <= vec[last'.v].size =>
        LET v == last'.v IN
        /\ vec'[v].size = last'.n
        /\ ElemsOf(vec', heap', v) = SubSeq(Elems(v), 1, last'.n)
        /\ vec'[v].capacity = vec[v].capacity
        /\ vec'[v].buf = vec[v].buf
        /\ heap' = heap

\* C7: Resize(n) with n <= size sets the size to n, keeps the elements at
\* 0..n-1 and leaves the capacity, the buffer identity and the buffer's slots
\* as they were.
C7_ResizeShrink == [][C7_Step]_vars

\* A Resize has cut three elements down to one.
C7_Witness ==
    /\ last.op = "Resize" /\ last.size0 = 3 /\ last.n = 1
    /\ vec[last.v].size = 1

\* What C8 asks of every step.
C8_Step ==
    last'.op = "Resize" /\ ~last'.threw /\ last'.n > vec[last'.v].size =>
        LET v == last'.v
            s == vec[v].size
            after == ElemsOf(vec', heap', v)
        IN  /\ vec'[v].size = last'.n
            /\ SubSeq(after, 1, s) = Elems(v)
            /\ \A i \in s + 1 .. last'.n : after[i] = DefaultValue

\* C8: Resize(n) from size s with n > s sets the size to n, keeps the elements
\* at 0..s-1 and makes every element at s..n-1 equal to Type(), whether n fits
\* in the capacity or not and whatever the slots s..n-1 held before.
C8_ResizeGrow == [][C8_Step]_vars

\* A Resize within the capacity has grown one element to three.
C8_Witness ==
    /\ last.op = "Resize" /\ last.size0 = 1 /\ last.n = 3 /\ ~last.grew
    /\ Elems(last.v)[1] # DefaultValue

\* What C9 asks of every step.
C9_Step ==
    last'.op = "At" =>
        LET v == last'.v IN
        /\ last'.threw <=> last'.n >= vec[v].size
        /\ ~last'.threw => last'.ret = Elems(v)[last'.n + 1]
        /\ vec' = vec /\ heap' = heap

\* C9: At(i) throws exactly when i >= size, otherwise returns the live element
\* at index i; either way size, capacity, buffer and slots are unchanged.
C9_CheckedAccess == [][C9_Step]_vars

\* At has thrown for an index within the capacity of an empty vector.
C9_Witness ==
    /\ last.op = "At" /\ last.threw
    /\ vec[last.v].size = 0 /\ last.n = 1 /\ vec[last.v].capacity >= 2

\* What C10 asks of every step.
C10_Step ==
    last'.op = "Reserve" /\ ~last'.threw =>
        LET v == last'.v IN
        IF last'.n <= vec[v].capacity
          THEN vec' = vec /\ heap' = heap
          ELSE /\ vec'[v].capacity = last'.n
               /\ vec'[v].size = vec[v].size
               /\ ElemsOf(vec', heap', v) = Elems(v)
               /\ Len(Slots(heap', vec'[v].buf)) = last'.n

\* C10: Reserve(n) with n <= capacity changes nothing (buffer identity,
\* capacity, size, slots); with n > capacity it sets the capacity to n and keeps
\* the size and the live elements in order.
C10_ReserveKeeps == [][C10_Step]_vars

\* A Reserve has moved two elements that differ to a larger buffer.
C10_Witness ==
    /\ last.op = "Reserve" /\ last.grew
    /\ vec[last.v].size = 2 /\ vec[last.v].capacity = last.n
    /\ Elems(last.v)[1] # Elems(last.v)[2]

\* The calls that allocate a buffer.
AllocatingOps ==
    {"PushBack", "PushBackMove", "Insert", "InsertMove", "Reserve", "Resize",
     "CtorCopy", "CopyAssign"}

\* What C11 asks of every step.
C11_Step ==
    last'.op \in AllocatingOps /\ last'.threw =>
        LET v == last'.v IN
        /\ View(vec', heap', v) = View(vec, heap, v)
        /\ Slots(heap', vec'[v].buf) = Slots(heap, vec[v].buf)

\* C11: when the allocation fails inside PushBack, Insert, Reserve, Resize, the
\* copy constructor or copy assignment, the call ends with the exception and
\* the instance it was made on keeps its size, capacity, buffer and elements.
C11_AllocationFailureKeepsState == [][C11_Step]_vars

\* A copy assignment to an instance holding an element has failed to allocate.
C11_Witness ==
    /\ last.op = "CopyAssign" /\ last.threw
    /\ vec[last.v].size = 1 /\ vec[last.w].size = 1
    /\ Elems(last.v) # Elems(last.w)

\* What C12 asks of every step.
C12_Step ==
    last'.op = "CopyAssign" /\ ~last'.threw =>
        LET a == last'.v
            b == last'.w
        IN  IF a # b
              THEN /\ vec'[a].size = vec[b].size
                   /\ ElemsOf(vec', heap', a) = Elems(b)
                   /\ vec'[b] = vec[b]
                   /\ Slots(heap', vec'[b].buf) = Slots(heap, vec[b].buf)
                   /\ vec'[a].buf = Null \/ vec'[a].buf # vec'[b].buf
              ELSE /\ vec'[a] = vec[a]
                   /\ Slots(heap', vec'[a].buf) = Slots(heap, vec[a].buf)

\* C12: copy assignment a = b between two instances leaves a with the size and
\* the live elements of b, leaves b's size, capacity, buffer and slots as they
\* were and gives a no buffer of b's; a = a leaves a's size, capacity, buffer
\* and slots as they were.
C12_CopyAssignment == [][C12_Step]_vars

\* An instance holding an element has been copy-assigned another's element, and
\* both hold a buffer.
C12_Witness ==
    /\ last.op = "CopyAssign" /\ ~last.threw /\ last.v # last.w
    /\ last.size0 = 1 /\ vec[last.v].size = 1
    /\ vec[last.v].buf # Null /\ vec[last.w].buf # Null
    /\ vec[last.v].buf # vec[last.w].buf

\* A non-empty instance has been copy-assigned to itself.
C12_SelfWitness ==
    /\ last.op = "CopyAssign" /\ last.v = last.w /\ vec[last.v].size >= 1

\* Whether the sequence s is lexicographically less than t: they agree on a
\* prefix after which s ends and t does not, or s has the smaller element.
LexLess(s, t) ==
    \E k \in 0 .. Len(s) :
        /\ k <= Len(t)
        /\ SubSeq(s, 1, k) = SubSeq(t, 1, k)
        /\ \/ k = Len(s) /\ k < Len(t)
           \/ k < Len(s) /\ k < Len(t) /\ s[k + 1] < t[k + 1]

\* C13: operator== is true exactly when the two vectors have the same live
\* elements in order, operator< exactly when the left live sequence is
\* lexicographically less than the right one (a proper prefix is less), so
\* neither depends on the capacity or on the slots at or beyond size; and
\* a <= b iff (a < b or a == b), a > b iff b < a, a >= b iff not (a < b),
\* a != b iff not (a == b).  The same holds of what each call returned.
C13_Comparison ==
    /\ \A a \in Vecs, b \in Vecs :
          vec[a].alive /\ vec[b].alive =>
              /\ OperatorEqual(a, b) <=> Elems(a) = Elems(b)
              /\ OperatorLess(a, b) <=> LexLess(Elems(a), Elems(b))
              /\ OperatorLessEqual(a, b) <=> (OperatorLess(a, b) \/ OperatorEqual(a, b))
              /\ OperatorGreater(a, b) <=> OperatorLess(b, a)
              /\ OperatorGreaterEqual(a, b) <=> ~OperatorLess(a, b)
              /\ OperatorNotEqual(a, b) <=> ~OperatorEqual(a, b)
    /\ last.op = "==" => last.ret = Truth(Elems(last.v) = Elems(last.w))
    /\ last.op = "!=" => last.ret = Truth(Elems(last.v) # Elems(last.w))
    /\ last.op = "<" => last.ret = Truth(LexLess(Elems(last.v), Elems(last.w)))
    /\ last.op = "<=" => last.ret = Truth(~LexLess(Elems(last.w), Elems(last.v)))
    /\ last.op = ">" => last.ret = Truth(LexLess(Elems(last.w), Elems(last.v)))
    /\ last.op = ">=" => last.ret = Truth(~LexLess(Elems(last.v), Elems(last.w)))

\* Two vectors with the same live element and stale slots that differ have been
\* found equal.
C13_Witness ==
    /\ last.op = "==" /\ last.v # last.w /\ last.ret = 1
    /\ vec[last.v].size = 1 /\ vec[last.w].size = 1
    /\ vec[last.v].capacity = 2 /\ vec[last.w].capacity = 2
    /\ Slots(heap, vec[last.v].buf)[2] # Slots(heap, vec[last.w].buf)[2]

\* A proper prefix has been found less than the longer vector.
C13_PrefixWitness ==
    /\ last.op = "<" /\ last.v # last.w /\ last.ret = 1
    /\ vec[last.v].size = 1 /\ vec[last.w].size = 2
    /\ Elems(last.v)[1] = Elems(last.w)[1]

\* The calls C14 is about, and those of them that only shrink the size.
C14_Ops ==
    {"PushBack", "PushBackMove", "PopBack", "Insert", "InsertMove", "Erase",
     "Resize", "Reserve", "Clear"}

C14_Shrinks(call, size) ==
    \/ call.op \in {"PopBack", "Erase", "Clear"}
    \/ call.op = "Resize" /\ ~call.threw /\ call.n <= size

\* What C14 asks of every step.
C14_Step ==
    last'.op \in C14_Ops =>
        LET v == last'.v IN
        /\ vec'[v].capacity >= vec[v].capacity
        /\ C14_Shrinks(last', vec[v].size) =>
              /\ vec'[v].capacity = vec[v].capacity
              /\ vec'[v].buf = vec[v].buf
              /\ Len(Slots(heap', vec'[v].buf)) = vec[v].capacity

\* C14: no PushBack, PopBack, Insert, Erase, Resize, Reserve or Clear on an
\* instance leaves it with a smaller capacity than it had; PopBack, Erase, Clear
\* and Resize to a size not larger leave the capacity as it was and the buffer
\* the same allocation, still held.
C14_CapacityNeverShrinks == [][C14_Step]_vars

\* A Clear has emptied a vector of two elements, which keeps its two slots.
C14_Witness ==
    /\ last.op = "Clear" /\ last.size0 = 2
    /\ vec[last.v].size = 0 /\ vec[last.v].capacity = 2
    /\ Len(Slots(heap, vec[last.v].buf)) = 2

\* Every instance holds its own allocation, of capacity slots, or none when its
\* capacity is 0; no two instances hold the same one.
C15_Exclusive ==
    /\ \A v \in Vecs :
          vec[v].alive =>
              /\ vec[v].buf = Null <=> vec[v].capacity = 0
              /\ Len(Slots(heap, vec[v].buf)) = vec[v].capacity
    /\ \A v \in Vecs, w \in Vecs :
          v # w /\ vec[v].alive /\ vec[w].alive /\ vec[v].buf # Null =>
              vec[v].buf # vec[w].buf

\* The calls that take a second instance and may change it.
C15_Exchanges == {"CtorMove", "MoveAssign", "swap"}

\* What C15 asks of every step: a call changes what is seen of no instance but
\* the one it is made on and, for a move or a swap, the one it is made with;
\* and a move or a swap between two instances only exchanges what they hold.
C15_Step ==
    /\ \A c \in Vecs :
          c # last'.v /\ ~(c = last'.w /\ last'.op \in C15_Exchanges) =>
              View(vec', heap', c) = View(vec, heap, c)
    /\ last'.op \in C15_Exchanges /\ last'.v # last'.w =>
          /\ heap' = heap
          /\ {vec'[last'.v].buf, vec'[last'.w].buf} = {vec[last'.v].buf, vec[last'.w].buf}

\* C15: in every reachable state no two instances own the same non-empty
\* buffer: copy construction and copy assignment give the target its own
\* buffer, move construction, move assignment and swap only exchange the buffers
\* of the two instances, and a call on one instance never changes the elements
\* seen through another.
C15_ExclusiveOwnership == []C15_Exclusive /\ [][C15_Step]_vars

\* A swap has exchanged the buffers of two instances that both hold one.
C15_Witness ==
    /\ last.op = "swap" /\ last.v # last.w
    /\ vec[last.v].buf # Null /\ vec[last.w].buf # Null
    /\ vec[last.v].buf # vec[last.w].buf
    /\ Elems(last.v) # Elems(last.w)

\* C16: a vector constructed from Reserve(n) has size 0 and capacity n, and
\* after each of the next k <= n PushBack calls, with no other call in between,
\* it has size k, capacity n, the buffer it was constructed with and the pushed
\* values in order as its elements.
C16_ReservedPushes ==
    \A v \in Vecs :
        pushed[v].req >= 0 =>
            /\ vec[v].size = Len(pushed[v].seq)
            /\ vec[v].capacity = pushed[v].req
            /\ vec[v].buf = pushed[v].buf
            /\ Elems(v) = pushed[v].seq

\* A vector constructed from Reserve(3) has taken three pushes, of values that
\* differ.
C16_Witness ==
    /\ pushed["a"].req = 3 /\ Len(pushed["a"].seq) = 3
    /\ pushed["a"].seq[1] # pushed["a"].seq[3]
    /\ last.op \in {"PushBack", "PushBackMove"} /\ ~last.threw

\* The larger of two numbers.
Max(a, b) == IF a >= b THEN a ELSE b

\* What C17 asks of every step.
C17_Step ==
    LET v == last'.v
        size == vec[v].size
        capacity == vec[v].capacity
        same == vec'[v].capacity = capacity /\ vec'[v].buf = vec[v].buf /\ ~last'.grew
    IN  /\ last'.op \in {"PushBack", "PushBackMove", "Insert", "InsertMove"}
              /\ ~last'.threw =>
              IF size = capacity
                THEN /\ last'.grew
                     /\ vec'[v].capacity = IF capacity = 0 THEN 1 ELSE 2 * capacity
                ELSE same
        /\ last'.op = "Resize" /\ ~last'.threw =>
              IF last'.n > capacity
                THEN /\ last'.grew
                     /\ vec'[v].capacity = Max(2 * capacity, last'.n)
                ELSE same

\* C17: PushBack and Insert allocate a new buffer exactly when size = capacity,
\* and then the capacity becomes 1 if it was 0 and twice what it was otherwise;
\* when size < capacity they leave the capacity and the buffer identity as they
\* were.  Resize(n) allocates a new buffer exactly when n > capacity, and then
\* the capacity becomes max(2 * capacity, n).
C17_GrowthPolicy == [][C17_Step]_vars

\* A Resize to 3 has taken a vector of capacity 2 to capacity 4.
C17_Witness ==
    /\ last.op = "Resize" /\ ~last.threw /\ last.grew
    /\ last.n = 3 /\ vec[last.v].capacity = 4 /\ vec[last.v].size = 3

\* What C18 asks of every step.
C18_Step ==
    last'.op \in {"Insert", "InsertMove"} /\ ~last'.threw =>
        LET v == last'.v
            p == last'.n
            old == Elems(v)
            new == ElemsOf(vec', heap', v)
        IN  /\ vec'[v].size = vec[v].size + 1
            /\ SubSeq(new, 1, p) = SubSeq(old, 1, p)
            /\ new[p + 1] = last'.x
            /\ SubSeq(new, p + 2, Len(new)) = SubSeq(old, p + 1, Len(old))
            /\ last'.ret = p
            /\ last'.retbuf = vec'[v].buf
            /\ Slots(heap', last'.retbuf)[last'.ret + 1] = last'.x

C18_EmptyWitness ==
    /\ last.op = "InsertMove" /\ ~last.threw /\ last.size0 = 0 /\ last.n = 0
    /\ vec[last.v].capacity = 1 /\ last.retbuf = vec[last.v].buf

\* An Insert at the end of a vector with spare capacity has returned.
C18_EndWitness ==
    /\ last.op = "Insert" /\ ~last.threw /\ ~last.grew
    /\ last.size0 = 2 /\ last.n = 2

\* What C19 asks of every step.
C19_Step ==
    last'.op = "Erase" =>
        LET v == last'.v
            p == last'.n
            old == Elems(v)
            new == ElemsOf(vec', heap', v)
        IN  /\ vec'[v].size = vec[v].size - 1
            /\ SubSeq(new, 1, p) = SubSeq(old, 1, p)
            /\ SubSeq(new, p + 1, Len(new)) = SubSeq(old, p + 2, Len(old))
            /\ vec'[v].capacity = vec[v].capacity
            /\ vec'[v].buf = vec[v].buf
            /\ last'.ret = p /\ last'.retbuf = vec'[v].buf
            /\ IF p + 1 < vec[v].size
                 THEN Slots(heap', last'.retbuf)[last'.ret + 1] = old[p + 2]
                 ELSE last'.ret = vec'[v].size

\* C19: Erase at index p in 0..size-1 gives size - 1, the elements at 0..p-1 as
\* they were, every old element at i > p at index i - 1, the capacity and the
\* buffer identity as they were, and returns index p of that buffer: the element
\* that followed the erased one, or the end position when the last element was
\* erased, also when size = capacity before the call.
C19_Erase == [][C19_Step]_vars

\* The last element of a full vector of two elements has been erased.
C19_Witness ==
    /\ last.op = "Erase" /\ last.size0 = 2 /\ last.n = 1
    /\ vec[last.v].capacity = 2 /\ vec[last.v].size = 1
    /\ last.ret = vec[last.v].size

\* The first of three elements that differ has been erased.
C19_MiddleWitness ==
    /\ last.op = "Erase" /\ last.size0 = 3 /\ last.n = 0
    /\ Elems(last.v)[1] # Elems(last.v)[2]

\* C20: a vector constructed from (count, value) has size = capacity = count and
\* every one of its count elements equal to the value supplied, whether the
\* value is passed as an lvalue or as an rvalue of a type whose moved-from
\* state differs from its value.
C20_CopyIntoEach ==
    last.op \in {"CtorSizeValue", "CtorSizeMoved"} =>
        /\ vec[last.v].size = last.n /\ vec[last.v].capacity = last.n
        /\ \A i \in 1 .. last.n : Elems(last.v)[i] = last.x

\* The part of C20 about the value passed as an lvalue.
C20_LvalueCopied ==
    last.op = "CtorSizeValue" =>
        /\ vec[last.v].size = last.n /\ vec[last.v].capacity = last.n
        /\ \A i \in 1 .. last.n : Elems(last.v)[i] = last.x
=============================================================================
